---- MODULE Spec2Model ----
(***************************************************************************)
(* The `linkerd routes` command of cli/cmd/routes.go as a state machine.   *)
(*                                                                         *)
(* One invocation of the command: buildTopRoutesRequest validates the      *)
(* options, client.TopRoutes is called once, requestRouteStatsFromAPI      *)
(* aggregates the rows of the response into a table, orders its keys with  *)
(* sortRoutes, renders it as a table or as JSON, and RunE prints it.       *)
(*                                                                         *)
(* Conventions of the model                                                *)
(*  - a route label is a Go string, modelled as the sequence of its bytes, *)
(*    so that len() is Len and < is the byte-wise comparison of Go;        *)
(*  - option values and messages are TLA+ strings;                         *)
(*  - a float64 is an integer count of thousandths;                        *)
(*  - a Go slice is [isNil, elems], a Go pointer is [isNil] or             *)
(*    [isNil, val]: nil and empty are different values, as in Go;          *)
(*  - the order in which `range` walks a Go map is not specified: it is an *)
(*    input `order` (a permutation of the keys) chosen by the action.      *)
(***************************************************************************)
EXTENDS Integers, Sequences, FiniteSets, TLC

VARIABLES
    options,       \* *routesOptions, set from the flags
    resource,      \* args[0]
    pc,            \* position of the invocation
    req,           \* the request built by buildTopRoutesRequest, [isNil] when none
    err,           \* the message of the error RunE returns, "" when nil
    apiCalls,      \* number of calls of client.TopRoutes
    call,          \* what client.TopRoutes returned: (resp, err)
    table,         \* the map built by writeRouteStatsToBuffer
    rendered,      \* the renderer writeRouteStatsToBuffer invoked
    sortedRoutes,  \* first result of the renderer's call of sortRoutes
    routeWidth,    \* second result of the renderer's call of sortRoutes
    output,        \* the string requestRouteStatsFromAPI returned
    stdout,        \* what was printed on standard output
    stderr,        \* what was printed on standard error
    exitCode       \* the argument of os.Exit, -1 while the process has not exited

vars == <<options, resource, pc, req, err, apiCalls, call, table, rendered,
          sortedRoutes, routeWidth, output, stdout, stderr, exitCode>>

(***************************************************************************)
(* Bounds and input domains                                                *)
(***************************************************************************)
MaxRows == 2

\* "[UNKNOWN]"
defaultRoute == <<91, 85, 78, 75, 78, 79, 87, 78, 93>>

\* "", "/b", "/ab", "/api/votes": a prefix-free pair whose length order and
\* byte order disagree, and a label longer than "[UNKNOWN]".
RouteLabels ==
    { <<>>,
      <<47, 98>>,
      <<47, 97, 98>>,
      <<47, 97, 112, 105, 47, 118, 111, 116, 101, 115>> }

NilStats == [isNil |-> TRUE]

\* *pb.BasicStats payloads of a row
StatsPayloads ==
    { [isNil |-> FALSE, SuccessCount |-> 8, FailureCount |-> 2, TlsRequestCount |-> 5,
       LatencyMsP50 |-> 5, LatencyMsP95 |-> 10, LatencyMsP99 |-> 20],
      [isNil |-> FALSE, SuccessCount |-> 3, FailureCount |-> 0, TlsRequestCount |-> 3,
       LatencyMsP50 |-> 1, LatencyMsP95 |-> 2, LatencyMsP99 |-> 3] }

\* *pb.RouteTable_Row
Rows ==
    [Route : RouteLabels, Dst : {"web-svc"}, TimeWindow : {"1m"},
     Stats : StatsPayloads \cup {NilStats}]

RowLists == UNION { [1..n -> Rows] : n \in 0..MaxRows }

OutputFormats == {"", "table", "json", "yaml"}
Resources == {"deploy/web", "bogus"}
ToServices == {"", "web"}
ToServiceNamespaces == {"", "other"}
ToExternals == {"", "example.com", "web.emojivoto.svc.cluster.local"}

\* what client.TopRoutes can return
CallResults ==
    { [err |-> "connection refused", respError |-> "", rows |-> <<>>],
      [err |-> "", respError |-> "no such resource", rows |-> <<>>] }
    \cup { [err |-> "", respError |-> "", rows |-> rs] : rs \in RowLists }

NoCall == [err |-> "", respError |-> "", rows |-> <<>>]
NilRequest == [isNil |-> TRUE]
NoOutput == [format |-> "none"]

(***************************************************************************)
(* Collaborators outside cli/cmd/routes.go, modelled from the              *)
(* specification.  An error is its message, "" is the nil error.           *)
(***************************************************************************)
\* statOptionsBase.validateOutputFormat: table, json or empty are supported
validateOutputFormat(opts) ==
    IF opts.outputFormat \in {"table", "json", ""} THEN "" ELSE "InvalidOutputFormat"

\* util.BuildResource: the resource argument resolved to (namespace, type, name)
BuildResource(namespace, res) ==
    IF res = "deploy/web"
    THEN [err |-> "", Namespace |-> namespace, Type |-> "deployment", Name |-> "web"]
    ELSE [err |-> "InvalidTarget", Namespace |-> "", Type |-> "", Name |-> ""]

\* util.BuildTopRoutesRequest: the request carries the parameters it is given
BuildTopRoutesRequest(requestParams) ==
    [req |-> [isNil |-> FALSE,
              TimeWindow |-> requestParams.TimeWindow,
              ResourceName |-> requestParams.ResourceName,
              ResourceType |-> requestParams.ResourceType,
              Namespace |-> requestParams.Namespace,
              ToService |-> requestParams.ToService,
              ToAll |-> requestParams.ToAll],
     err |-> ""]

\* util.GetSuccessRate, util.GetRequestRate, util.GetPercentTls: ratios of the
\* counters of a payload, in thousandths
WindowSeconds(timeWindow) == IF timeWindow = "1m" THEN 60 ELSE 1

GetSuccessRate(stats) ==
    LET total == stats.SuccessCount + stats.FailureCount
    IN  IF total = 0 THEN 0 ELSE (stats.SuccessCount * 1000) \div total

GetRequestRate(stats, timeWindow) ==
    ((stats.SuccessCount + stats.FailureCount) * 1000) \div WindowSeconds(timeWindow)

GetPercentTls(stats) ==
    LET total == stats.SuccessCount + stats.FailureCount
    IN  IF total = 0 THEN 0 ELSE (stats.TlsRequestCount * 1000) \div total

(***************************************************************************)
(* buildTopRoutesRequest (routes.go:218-266)                               *)
(***************************************************************************)
ErrExternalAndService == "\"--to-external\" and \"--to-service\" are mutually exclusive"
ErrToAll == "\"--to-all\" cannot be used with \"--to-service\" or \"--to-external\""

\* fmt.Sprintf("%s.%s.svc.cluster.local", name, namespace)
QualifiedService(name, namespace) == name \o "." \o namespace \o ".svc.cluster.local"

\* toServiceOf with "--to-service-namespace" ignored
toServiceOfCurrentNamespace(opts) ==
    IF opts.toService # ""
    THEN QualifiedService(opts.toService, opts.namespace)
    ELSE ""

\* lines 238-245: the to-service name, qualified
toServiceOf(opts) ==
    IF opts.toService # ""
    THEN LET toNamespace == IF opts.toServiceNamespace = ""
                            THEN opts.namespace
                            ELSE opts.toServiceNamespace
         IN  QualifiedService(opts.toService, toNamespace)
    ELSE ""

\* destinationFilter without the check of lines 254-256
destinationFilterNoToAllCheck(target, opts) ==
    LET requestParams == [TimeWindow |-> opts.timeWindow,
                          ResourceName |-> target.Name,
                          ResourceType |-> target.Type,
                          Namespace |-> opts.namespace,
                          ToService |-> "",
                          ToAll |-> FALSE]
        toService1 == toServiceOf(opts)
        toService2 == IF opts.toExternal # "" THEN opts.toExternal ELSE toService1
    IN  IF opts.toExternal # "" /\ toService1 # ""
        THEN [req |-> NilRequest, err |-> ErrExternalAndService]
        ELSE BuildTopRoutesRequest(
                 [requestParams EXCEPT !.ToService = toService2,
                                       !.ToAll = opts.toAll])

\* lines 238-265, once the output format and the target are accepted
destinationFilter(target, opts) ==
    LET requestParams == [TimeWindow |-> opts.timeWindow,
                          ResourceName |-> target.Name,
                          ResourceType |-> target.Type,
                          Namespace |-> opts.namespace,
                          ToService |-> "",
                          ToAll |-> FALSE]
        toService1 == toServiceOf(opts)
        toService2 == IF opts.toExternal # "" THEN opts.toExternal ELSE toService1
    IN  IF opts.toExternal # "" /\ toService1 # ""
        THEN [req |-> NilRequest, err |-> ErrExternalAndService]
        ELSE IF toService2 # "" /\ opts.toAll
        THEN [req |-> NilRequest, err |-> ErrToAll]
        ELSE BuildTopRoutesRequest(
                 [requestParams EXCEPT !.ToService = toService2,
                                       !.ToAll = opts.toAll])

\* buildTopRoutesRequest validating the output format after the filters
buildValidatingFormatLast(res, opts) ==
    LET formatErr == validateOutputFormat(opts)
        target == BuildResource(opts.namespace, res)
        built == destinationFilter(target, opts)
    IN  IF target.err # ""
        THEN [req |-> NilRequest, err |-> target.err]
        ELSE IF built.err # ""
        THEN built
        ELSE IF formatErr # ""
        THEN [req |-> NilRequest, err |-> formatErr]
        ELSE built

buildTopRoutesRequest(res, opts) ==
    LET formatErr == validateOutputFormat(opts)
        target == BuildResource(opts.namespace, res)
    IN  IF formatErr # ""
        THEN [req |-> NilRequest, err |-> formatErr]
        ELSE IF target.err # ""
        THEN [req |-> NilRequest, err |-> target.err]
        ELSE destinationFilter(target, opts)

(***************************************************************************)
(* Go strings and sort.Strings                                             *)
(***************************************************************************)
RECURSIVE StrLess(_, _)
\* a < b on Go strings: byte-wise lexicographic
StrLess(a, b) ==
    IF b = <<>> THEN FALSE
    ELSE IF a = <<>> THEN TRUE
    ELSE IF Head(a) < Head(b) THEN TRUE
    ELSE IF Head(a) > Head(b) THEN FALSE
    ELSE StrLess(Tail(a), Tail(b))

RECURSIVE InsertSorted(_, _)
InsertSorted(x, sorted) ==
    IF sorted = <<>> THEN <<x>>
    ELSE IF StrLess(x, Head(sorted)) THEN <<x>> \o sorted
    ELSE <<Head(sorted)>> \o InsertSorted(x, Tail(sorted))

RECURSIVE SortStrings(_)
\* sort.Strings: the elements in increasing order
SortStrings(xs) ==
    IF xs = <<>> THEN <<>> ELSE InsertSorted(Head(xs), SortStrings(Tail(xs)))

\* the orders in which `range` can walk the keys of a map
RangeOrders(stats) ==
    LET keys == DOMAIN stats
        n == Cardinality(keys)
    IN  { o \in [1..n -> keys] : \A i, j \in 1..n : i # j => o[i] # o[j] }

\* fmt.Sprintf("%-<width>s", s)
PadRight(s, width) ==
    IF Len(s) >= width THEN s ELSE s \o [i \in 1..(width - Len(s)) |-> 32]

\* fmt.Sprintf of one number: the verb and its argument
Sprintf(verb, arg) == [verb |-> verb, arg |-> arg]

(***************************************************************************)
(* sortRoutes (routes.go:268-288)                                          *)
(***************************************************************************)
RECURSIVE sortRoutesLoop(_, _)
\* lines 273-282, over the keys in the order `range` yields them
sortRoutesLoop(order, acc) ==
    IF order = <<>> THEN acc
    ELSE LET key == Head(order)
         IN  sortRoutesLoop(Tail(order),
                 IF key = <<>>
                 THEN [acc EXCEPT !.hasDefaultRoute = TRUE]
                 ELSE [acc EXCEPT !.sortedRoutes = Append(@, key),
                                  !.maxLength = IF Len(key) > @ THEN Len(key) ELSE @])

\* sortRoutes sorting the empty label with the others
sortRoutesEmptySorted(stats, order) ==
    LET acc == sortRoutesLoop(order, [sortedRoutes |-> <<>>,
                                      maxLength |-> Len(defaultRoute),
                                      hasDefaultRoute |-> FALSE])
    IN  [sortedRoutes |-> SortStrings(IF acc.hasDefaultRoute
                                      THEN Append(acc.sortedRoutes, <<>>)
                                      ELSE acc.sortedRoutes),
         maxLength |-> acc.maxLength]

\* sortRoutes with maxLength starting at 0
sortRoutesNoFloor(stats, order) ==
    LET acc == sortRoutesLoop(order, [sortedRoutes |-> <<>>,
                                      maxLength |-> 0,
                                      hasDefaultRoute |-> FALSE])
        sorted == SortStrings(acc.sortedRoutes)
    IN  [sortedRoutes |-> IF acc.hasDefaultRoute THEN Append(sorted, <<>>) ELSE sorted,
         maxLength |-> acc.maxLength]

sortRoutes(stats, order) ==
    LET acc == sortRoutesLoop(order, [sortedRoutes |-> <<>>,
                                      maxLength |-> Len(defaultRoute),
                                      hasDefaultRoute |-> FALSE])
        sorted == SortStrings(acc.sortedRoutes)
    IN  [sortedRoutes |-> IF acc.hasDefaultRoute THEN Append(sorted, <<>>) ELSE sorted,
         maxLength |-> acc.maxLength]

(***************************************************************************)
(* The aggregation loop of writeRouteStatsToBuffer (routes.go:107-121)     *)
(***************************************************************************)
\* lines 111-119: the rowStats of a row that carries stats
rowStatsOf(r) ==
    [dst |-> r.Dst,
     requestRate |-> GetRequestRate(r.Stats, r.TimeWindow),
     successRate |-> GetSuccessRate(r.Stats),
     tlsPercent |-> GetPercentTls(r.Stats),
     latencyP50 |-> r.Stats.LatencyMsP50,
     latencyP95 |-> r.Stats.LatencyMsP95,
     latencyP99 |-> r.Stats.LatencyMsP99]

\* aggregateRow keeping a row without stats as a zero-valued entry
aggregateRowKeepsEmpty(tbl, r) ==
    [k \in DOMAIN tbl \cup {r.Route} |->
        IF k # r.Route THEN tbl[k]
        ELSE IF ~r.Stats.isNil THEN rowStatsOf(r)
        ELSE [dst |-> r.Dst, requestRate |-> 0, successRate |-> 0, tlsPercent |-> 0,
              latencyP50 |-> 0, latencyP95 |-> 0, latencyP99 |-> 0]]

\* lines 110-120: one iteration
aggregateRow(tbl, r) ==
    IF ~r.Stats.isNil
    THEN [k \in DOMAIN tbl \cup {r.Route} |-> IF k = r.Route THEN rowStatsOf(r) ELSE tbl[k]]
    ELSE tbl

RECURSIVE aggregateRows(_, _)
\* lines 109-121
aggregateRows(rows, tbl) ==
    IF rows = <<>> THEN tbl
    ELSE aggregateRows(Tail(rows), aggregateRow(tbl, Head(rows)))

EmptyTable == [k \in {} |-> 0]

(***************************************************************************)
(* printRouteTable (routes.go:135-174)                                     *)
(* The text written to the tabwriter is the sequence of its lines, each    *)
(* the sequence of its tab-terminated cells.                               *)
(***************************************************************************)
\* "ROUTE"
RouteHeader == <<82, 79, 85, 84, 69>>

\* lines 157-172: the line of one route
tableLine(stats, route, width) ==
    IF route \in DOMAIN stats
    THEN LET row == stats[route]
         IN  [kind |-> "row",
              route |-> PadRight(IF route = <<>> THEN defaultRoute ELSE route, width),
              service |-> row.dst,
              success |-> Sprintf("%.2f%%", row.successRate * 100),
              rps |-> Sprintf("%.1frps", row.requestRate),
              latencyP50 |-> Sprintf("%dms", row.latencyP50),
              latencyP95 |-> Sprintf("%dms", row.latencyP95),
              latencyP99 |-> Sprintf("%dms", row.latencyP99),
              tls |-> Sprintf("%.f%%", row.tlsPercent * 100)]
    ELSE [kind |-> "empty", route |-> route]

printRouteTable(stats, order) ==
    LET sorted == sortRoutes(stats, order)
        header == [kind |-> "header", route |-> PadRight(RouteHeader, sorted.maxLength)]
    IN  [sortedRoutes |-> sorted.sortedRoutes,
         routeWidth |-> sorted.maxLength,
         buffer |-> [format |-> "table",
                     lines |-> <<header>> \o
                               [i \in 1..Len(sorted.sortedRoutes) |->
                                   tableLine(stats, sorted.sortedRoutes[i], sorted.maxLength)]]]

(***************************************************************************)
(* printRouteJson (routes.go:176-216)                                      *)
(***************************************************************************)
NilPtr == [isNil |-> TRUE]
Ptr(v) == [isNil |-> FALSE, val |-> v]

\* jsonEntry without the replacement of lines 196-198
jsonEntryRawRoute(stats, route) ==
    LET entry == [Route |-> route,
                  Service |-> "",
                  Success |-> NilPtr, Rps |-> NilPtr,
                  LatencyMSp50 |-> NilPtr, LatencyMSp95 |-> NilPtr,
                  LatencyMSp99 |-> NilPtr, Tls |-> NilPtr]
    IN  IF route \in DOMAIN stats
        THEN LET row == stats[route]
             IN  [entry EXCEPT !.Service = row.dst,
                               !.Success = Ptr(row.successRate),
                               !.Rps = Ptr(row.requestRate),
                               !.LatencyMSp50 = Ptr(row.latencyP50),
                               !.LatencyMSp95 = Ptr(row.latencyP95),
                               !.LatencyMSp99 = Ptr(row.latencyP99),
                               !.Tls = Ptr(stats[route].tlsPercent)]
        ELSE entry

\* lines 193-207: the jsonRouteStats of one route
jsonEntry(stats, route) ==
    LET entry == [Route |-> IF route = <<>> THEN defaultRoute ELSE route,
                  Service |-> "",
                  Success |-> NilPtr, Rps |-> NilPtr,
                  LatencyMSp50 |-> NilPtr, LatencyMSp95 |-> NilPtr,
                  LatencyMSp99 |-> NilPtr, Tls |-> NilPtr]
    IN  IF route \in DOMAIN stats
        THEN LET row == stats[route]
             IN  [entry EXCEPT !.Service = row.dst,
                               !.Success = Ptr(row.successRate),
                               !.Rps = Ptr(row.requestRate),
                               !.LatencyMSp50 = Ptr(row.latencyP50),
                               !.LatencyMSp95 = Ptr(row.latencyP95),
                               !.LatencyMSp99 = Ptr(row.latencyP99),
                               !.Tls = Ptr(stats[route].tlsPercent)]
        ELSE entry

\* encoding/json on a pointer field: null when nil, the value otherwise
MarshalPtr(p) == IF p.isNil THEN [null |-> TRUE] ELSE [null |-> FALSE, val |-> p.val]

\* encoding/json on a jsonRouteStats, by its field tags (lines 177-186)
MarshalEntry(e) ==
    [route |-> e.Route,
     service |-> e.Service,
     success |-> MarshalPtr(e.Success),
     rps |-> MarshalPtr(e.Rps),
     latency_ms_p50 |-> MarshalPtr(e.LatencyMSp50),
     latency_ms_p95 |-> MarshalPtr(e.LatencyMSp95),
     latency_ms_p99 |-> MarshalPtr(e.LatencyMSp99),
     tls |-> MarshalPtr(e.Tls)]

\* json.MarshalIndent(entries, "", "  "): a nil slice is null, an empty one is [],
\* any other the array of its objects.  It fails only on a NaN or an infinite
\* float, which the thousandths of this model cannot hold, so lines 211-214 are
\* not taken.
MarshalIndent(entries) ==
    IF entries.isNil THEN [literal |-> "null", objects |-> <<>>]
    ELSE IF Len(entries.elems) = 0 THEN [literal |-> "[]", objects |-> <<>>]
    ELSE [literal |-> "[...]",
          objects |-> [i \in 1..Len(entries.elems) |-> MarshalEntry(entries.elems[i])]]

\* printRouteJson with entries declared as a nil slice
printRouteJsonNilEntries(stats, order) ==
    LET sorted == sortRoutes(stats, order)
        entries == [isNil |-> Len(sorted.sortedRoutes) = 0,
                    elems |-> [i \in 1..Len(sorted.sortedRoutes) |->
                                  jsonEntry(stats, sorted.sortedRoutes[i])]]
        b == MarshalIndent(entries)
    IN  [sortedRoutes |-> sorted.sortedRoutes,
         routeWidth |-> sorted.maxLength,
         buffer |-> [format |-> "json", literal |-> b.literal,
                     objects |-> b.objects, newline |-> TRUE]]

printRouteJson(stats, order) ==
    LET sorted == sortRoutes(stats, order)
        entries == [isNil |-> FALSE,
                    elems |-> [i \in 1..Len(sorted.sortedRoutes) |->
                                  jsonEntry(stats, sorted.sortedRoutes[i])]]
        b == MarshalIndent(entries)
    IN  [sortedRoutes |-> sorted.sortedRoutes,
         routeWidth |-> sorted.maxLength,
         \* fmt.Fprintf(w, "%s\n", b)
         buffer |-> [format |-> "json", literal |-> b.literal,
                     objects |-> b.objects, newline |-> TRUE]]

(***************************************************************************)
(* writeRouteStatsToBuffer, renderRouteStats, requestRouteStatsFromAPI     *)
(* (routes.go:85-133).  The result of each is the record of what it        *)
(* returns and of its effects on the process.                              *)
(***************************************************************************)
\* the message of line 126 (its quotation of the profile command left out)
NoTraffic == "No traffic found.  Does the service have a service profile?"

\* nothing aggregated, rendered, written or returned
NoEffect ==
    [table |-> EmptyTable, rendered |-> "none", sortedRoutes |-> <<>>, routeWidth |-> 0,
     output |-> NoOutput, err |-> "", stderr |-> <<>>, exitCode |-> -1]

\* writeRouteStatsToBuffer without the check of lines 125-128
writeRouteStatsNoExit(rows, opts, order) ==
    LET tbl == aggregateRows(rows, EmptyTable)
        aggregated == [NoEffect EXCEPT !.table = tbl]
        p == IF opts.outputFormat = "json"
             THEN printRouteJson(tbl, order)
             ELSE printRouteTable(tbl, order)
    IN  IF opts.outputFormat \in {"table", "", "json"}
        THEN [aggregated EXCEPT !.rendered = IF opts.outputFormat = "json"
                                             THEN "json" ELSE "table",
                                !.sortedRoutes = p.sortedRoutes,
                                !.routeWidth = p.routeWidth,
                                !.output = p.buffer]
        ELSE aggregated

writeRouteStatsToBuffer(rows, opts, order) ==
    LET tbl == aggregateRows(rows, EmptyTable)
        aggregated == [NoEffect EXCEPT !.table = tbl]
    IN  IF opts.outputFormat \in {"table", ""}
        THEN IF Cardinality(DOMAIN tbl) = 0
             THEN [aggregated EXCEPT !.stderr = <<NoTraffic>>, !.exitCode = 0]
             ELSE LET p == printRouteTable(tbl, order)
                  IN  [aggregated EXCEPT !.rendered = "table",
                                         !.sortedRoutes = p.sortedRoutes,
                                         !.routeWidth = p.routeWidth,
                                         !.output = p.buffer]
        ELSE IF opts.outputFormat = "json"
        THEN LET p == printRouteJson(tbl, order)
             IN  [aggregated EXCEPT !.rendered = "json",
                                    !.sortedRoutes = p.sortedRoutes,
                                    !.routeWidth = p.routeWidth,
                                    !.output = p.buffer]
        ELSE aggregated

\* stat.go renderStats, modelled from the specification: the text of the buffer
renderStats(buffer, opts) == buffer

renderRouteStats(rows, opts, order) ==
    LET w == writeRouteStatsToBuffer(rows, opts, order)
    IN  IF w.exitCode # -1 THEN w
        ELSE [w EXCEPT !.output = renderStats(w.output, opts)]

\* requestRouteStatsFromAPI without the check of lines 90-92
requestIgnoringResponseError(c, opts, order) ==
    IF c.err # ""
    THEN [NoEffect EXCEPT !.err = "TopRoutes API error: " \o c.err]
    ELSE renderRouteStats(c.rows, opts, order)

\* lines 87-94, on what client.TopRoutes returned
requestRouteStatsFromAPI(c, opts, order) ==
    IF c.err # ""
    THEN [NoEffect EXCEPT !.err = "TopRoutes API error: " \o c.err]
    ELSE IF c.respError # ""
    THEN [NoEffect EXCEPT !.err = "TopRoutes API response error: " \o c.respError]
    ELSE renderRouteStats(c.rows, opts, order)

(***************************************************************************)
(* The command (newCmdRoutes, routes.go:41-83)                             *)
(***************************************************************************)
\* newRoutesOptions (lines 31-39) and the flags (lines 74-80)
Options ==
    [namespace : {"emojivoto"},
     timeWindow : {"1m"},
     outputFormat : OutputFormats,
     toService : ToServices,
     toServiceNamespace : ToServiceNamespaces,
     toAll : BOOLEAN,
     toExternal : ToExternals]

Init ==
    /\ options \in Options
    /\ resource \in Resources
    /\ pc = "start"
    /\ req = NilRequest
    /\ err = ""
    /\ apiCalls = 0
    /\ call = NoCall
    /\ table = EmptyTable
    /\ rendered = "none"
    /\ sortedRoutes = <<>>
    /\ routeWidth = 0
    /\ output = NoOutput
    /\ stdout = <<>>
    /\ stderr = <<>>
    /\ exitCode = -1

\* the prefix of fmt.Errorf at line 60
ErrCreating == "error creating metrics request while making routes request: "

\* lines 58-61
BuildRequest ==
    /\ pc = "start"
    /\ LET b == buildTopRoutesRequest(resource, options)
       IN  IF b.err # ""
           THEN /\ err' = ErrCreating \o b.err
                /\ pc' = "failed"
                /\ req' = req
           ELSE /\ req' = b.req
                /\ pc' = "built"
                /\ err' = err
    /\ UNCHANGED <<options, resource, apiCalls, call, table, rendered, sortedRoutes,
                   routeWidth, output, stdout, stderr, exitCode>>

\* line 86: the one call of the API, which returns what the server decides
CallTopRoutes ==
    /\ pc = "built"
    /\ \E c \in CallResults : call' = c
    /\ apiCalls' = apiCalls + 1
    /\ pc' = "called"
    /\ UNCHANGED <<options, resource, req, err, table, rendered, sortedRoutes,
                   routeWidth, output, stdout, stderr, exitCode>>

\* lines 87-94 and 63-66: the rest of requestRouteStatsFromAPI
HandleResponse ==
    /\ pc = "called"
    /\ \E order \in RangeOrders(aggregateRows(call.rows, EmptyTable)) :
          LET r == requestRouteStatsFromAPI(call, options, order)
          IN  /\ table' = r.table
              /\ rendered' = r.rendered
              /\ sortedRoutes' = r.sortedRoutes
              /\ routeWidth' = r.routeWidth
              /\ output' = r.output
              /\ err' = r.err
              /\ stderr' = stderr \o r.stderr
              /\ exitCode' = r.exitCode
              /\ pc' = IF r.exitCode # -1 THEN "exited"
                       ELSE IF r.err # "" THEN "failed"
                       ELSE "returned"
    /\ UNCHANGED <<options, resource, req, apiCalls, call, stdout>>

\* lines 68-70: fmt.Print(output)
WriteOutput ==
    /\ pc = "returned"
    /\ stdout' = IF output.format = "none" THEN stdout ELSE Append(stdout, output)
    /\ pc' = "done"
    /\ UNCHANGED <<options, resource, req, err, apiCalls, call, table, rendered,
                   sortedRoutes, routeWidth, output, stderr, exitCode>>

Next == BuildRequest \/ CallTopRoutes \/ HandleResponse \/ WriteOutput

Spec == Init /\ [][Next]_vars

(***************************************************************************)
(* Properties                                                              *)
(***************************************************************************)
\* a < b byte-wise, stated without recursion: b continues a, or they first
\* differ at a byte where a's is the smaller
LexLess(a, b) ==
    \E k \in 1..Len(b) :
        /\ k <= Len(a) + 1
        /\ \A i \in 1..(k - 1) : a[i] = b[i]
        /\ (k = Len(a) + 1 \/ a[k] < b[k])

\* client.TopRoutes returned rows, and requestRouteStatsFromAPI has handled them
Aggregated ==
    /\ pc \in {"returned", "done", "exited"}
    /\ call.err = ""
    /\ call.respError = ""

\* the indices of the rows that carry stats
WithStats == {i \in 1..Len(call.rows) : ~call.rows[i].Stats.isNil}

FormatSupported == options.outputFormat \in {"table", "json", ""}
TableMode == options.outputFormat \in {"table", ""}
JsonMode == options.outputFormat = "json"

\* C1: the sequence sortRoutes returns holds exactly the keys of the table, each
\* once, the non-empty labels in increasing byte-wise order and the empty label
\* last; so printRouteTable never writes the all-dash line.
C1_SortRoutesOrdering ==
    rendered # "none" =>
        /\ {sortedRoutes[i] : i \in 1..Len(sortedRoutes)} = DOMAIN table
        /\ Len(sortedRoutes) = Cardinality(DOMAIN table)
        /\ \A i, j \in 1..Len(sortedRoutes) :
              i < j => /\ sortedRoutes[i] # <<>>
                       /\ sortedRoutes[j] # <<>> => LexLess(sortedRoutes[i], sortedRoutes[j])
        /\ rendered = "table" =>
              \A i \in 1..Len(output.lines) : output.lines[i].kind # "empty"

\* the table holds the empty label and another one, and was rendered as a table
C1_Witness ==
    /\ pc = "done"
    /\ rendered = "table"
    /\ <<>> \in DOMAIN table
    /\ Cardinality(DOMAIN table) >= 2

\* C2 as stated: whatever the other options, conflicting destination filters make
\* buildTopRoutesRequest fail with a conflicting-destination-filter error.
C2_Original ==
    (/\ pc # "start"
     /\ \/ options.toService # "" /\ options.toExternal # ""
        \/ options.toAll /\ (options.toService # "" \/ options.toExternal # ""))
    => /\ req.isNil
       /\ err \in {ErrCreating \o ErrExternalAndService, ErrCreating \o ErrToAll}

\* C2 amended: with conflicting destination filters buildTopRoutesRequest returns
\* no request and the command fails before any query; when the output format is
\* supported and the resource resolves, the error is the mutual-exclusion error of
\* to-service and to-external if both are set, the to-all error otherwise.
C2_ConflictingFilters ==
    (/\ pc # "start"
     /\ \/ options.toService # "" /\ options.toExternal # ""
        \/ options.toAll /\ (options.toService # "" \/ options.toExternal # ""))
    => /\ req.isNil
       /\ pc = "failed"
       /\ apiCalls = 0
       /\ (FormatSupported /\ BuildResource(options.namespace, resource).err = "") =>
             err = ErrCreating \o (IF options.toService # "" /\ options.toExternal # ""
                                   THEN ErrExternalAndService
                                   ELSE ErrToAll)

\* to-all with to-external, the output format and the resource being valid
C2_Witness ==
    /\ pc = "failed"
    /\ FormatSupported
    /\ resource = "deploy/web"
    /\ options.toAll
    /\ options.toExternal # ""
    /\ options.toService = ""
    /\ options.toServiceNamespace # ""

\* the destination-filter mode the options select
SelectedMode(opts) ==
    IF opts.toService # "" THEN "to-service"
    ELSE IF opts.toExternal # "" THEN "to-external"
    ELSE IF opts.toAll THEN "to-all"
    ELSE "none"

\* the same, a to-service and a to-external selection both being a destination name
SelectedForm(opts) ==
    IF opts.toService # "" \/ opts.toExternal # "" THEN "destination"
    ELSE IF opts.toAll THEN "to-all"
    ELSE "none"

\* what the request built for the options carries
CarriesSelection ==
    /\ options.toService # "" =>
          req.ToService = options.toService \o "."
                          \o (IF options.toServiceNamespace # ""
                              THEN options.toServiceNamespace
                              ELSE options.namespace)
                          \o ".svc.cluster.local"
    /\ (options.toService = "" /\ options.toExternal # "") =>
          req.ToService = options.toExternal
    /\ (options.toService = "" /\ options.toExternal = "") => req.ToService = ""
    /\ req.ToAll = options.toAll
    /\ ~(req.ToService # "" /\ req.ToAll)

C4_AggregatorDropsEmptyRows ==
    Aggregated =>
        /\ DOMAIN table = {call.rows[i].Route : i \in WithStats}
        /\ \A k \in DOMAIN table :
              \E i \in WithStats :
                  /\ call.rows[i].Route = k
                  /\ \A j \in WithStats : call.rows[j].Route = k => j <= i
                  /\ table[k].dst = call.rows[i].Dst
                  /\ table[k].latencyP50 = call.rows[i].Stats.LatencyMsP50
                  /\ table[k].latencyP95 = call.rows[i].Stats.LatencyMsP95
                  /\ table[k].latencyP99 = call.rows[i].Stats.LatencyMsP99
                  /\ table[k].successRate = GetSuccessRate(call.rows[i].Stats)
                  /\ table[k].requestRate =
                         GetRequestRate(call.rows[i].Stats, call.rows[i].TimeWindow)
                  /\ table[k].tlsPercent = GetPercentTls(call.rows[i].Stats)
        /\ table = aggregateRows(SelectSeq(call.rows, LAMBDA r : ~r.Stats.isNil),
                                 EmptyTable)

\* a row with stats followed by a row of the same label without stats
C4_Witness ==
    /\ Aggregated
    /\ Len(call.rows) >= 2
    /\ call.rows[1].Route = call.rows[2].Route
    /\ ~call.rows[1].Stats.isNil
    /\ call.rows[2].Stats.isNil

\* C5: an unsupported output format fails with the invalid-output-format error
\* before any query, whatever the resource and the destination filters; and while
\* no request has been built, TopRoutes is not called and nothing is printed.
C5_InvalidFormatBeforeQuery ==
    /\ ~FormatSupported =>
          /\ apiCalls = 0
          /\ pc \in {"start", "failed"}
          /\ pc = "failed" => err = ErrCreating \o "InvalidOutputFormat"
    /\ req.isNil =>
          /\ apiCalls = 0
          /\ Len(stdout) = 0
          /\ pc \in {"start", "failed"}
    /\ (pc = "failed" /\ req.isNil) => ~ENABLED Next

\* an unsupported format together with an invalid resource and conflicting filters
C5_Witness ==
    /\ pc = "failed"
    /\ ~FormatSupported
    /\ resource = "bogus"
    /\ options.toAll
    /\ options.toService # ""
    /\ options.toExternal # ""

\* C6: in table mode an empty aggregated table makes the command write the
\* no-traffic message on standard error and exit with code 0, without rendering
\* and without anything on standard output.
C6_EmptyTableExits ==
    (Aggregated /\ TableMode /\ DOMAIN table = {}) =>
        /\ pc = "exited"
        /\ rendered = "none"
        /\ stderr = <<NoTraffic>>
        /\ exitCode = 0
        /\ output.format = "none"
        /\ Len(stdout) = 0
        /\ ~ENABLED Next

\* rows came back, none with stats
C6_Witness ==
    /\ pc = "exited"
    /\ options.outputFormat = ""
    /\ Len(call.rows) > 0
    /\ WithStats = {}

\* C7: in json mode an empty aggregated table is rendered as the text [] and not
\* null, nothing is written on standard error, the process does not exit, and the
\* command goes on to print the text and return without an error.
C7_EmptyJsonArray ==
    (Aggregated /\ JsonMode /\ DOMAIN table = {}) =>
        /\ pc \in {"returned", "done"}
        /\ rendered = "json"
        /\ output.format = "json"
        /\ output.literal = "[]"
        /\ Len(output.objects) = 0
        /\ stderr = <<>>
        /\ exitCode = -1
        /\ err = ""
        /\ pc = "returned" => ENABLED WriteOutput
        /\ pc = "done" => (Len(stdout) = 1 /\ stdout[1].literal = "[]")

\* rows came back, none with stats, and the command has printed
C7_Witness ==
    /\ pc = "done"
    /\ JsonMode
    /\ Len(call.rows) > 0
    /\ WithStats = {}

\* C8: TopRoutes is called at most once; after a transport failure or an error
\* carried by the response the command has failed with an error, having called
\* TopRoutes once, with no output, no aggregation, no rendering and nothing on
\* standard output, and takes no further step.
C8_ApiErrorsFail ==
    /\ apiCalls <= 1
    /\ pc \in {"called", "returned", "done", "exited"} => apiCalls = 1
    /\ (pc # "called" /\ (call.err # "" \/ call.respError # "")) =>
          /\ pc = "failed"
          /\ apiCalls = 1
          /\ err = (IF call.err # ""
                    THEN "TopRoutes API error: " \o call.err
                    ELSE "TopRoutes API response error: " \o call.respError)
          /\ output.format = "none"
          /\ DOMAIN table = {}
          /\ rendered = "none"
          /\ Len(stdout) = 0
          /\ Len(stderr) = 0
          /\ exitCode = -1
          /\ ~ENABLED Next

\* the response carried an error
C8_Witness ==
    /\ pc = "failed"
    /\ call.respError # ""
    /\ apiCalls = 1

\* C9: printRouteJson emits one object per route of the ordering, in its order;
\* the object of the empty label has the route "[UNKNOWN]", any other its label;
\* its fields are non-null and hold the values of its row; and printRouteTable
\* writes its rows for the same table in the same order, whatever the order in
\* which it walks the map.
C9_JsonFollowsOrdering ==
    rendered = "json" =>
        /\ Len(output.objects) = Len(sortedRoutes)
        /\ \A i \in 1..Len(sortedRoutes) :
              LET route == sortedRoutes[i]
                  object == output.objects[i]
              IN  /\ object.route = (IF route = <<>> THEN defaultRoute ELSE route)
                  /\ route \in DOMAIN table =>
                        /\ object.service = table[route].dst
                        /\ object.success = [null |-> FALSE, val |-> table[route].successRate]
                        /\ object.rps = [null |-> FALSE, val |-> table[route].requestRate]
                        /\ object.latency_ms_p50 = [null |-> FALSE, val |-> table[route].latencyP50]
                        /\ object.latency_ms_p95 = [null |-> FALSE, val |-> table[route].latencyP95]
                        /\ object.latency_ms_p99 = [null |-> FALSE, val |-> table[route].latencyP99]
                        /\ object.tls = [null |-> FALSE, val |-> table[route].tlsPercent]
        /\ \A order \in RangeOrders(table) :
              LET t == printRouteTable(table, order)
              IN  /\ Len(t.buffer.lines) = Len(output.objects) + 1
                  /\ \A i \in 1..Len(output.objects) :
                        /\ t.buffer.lines[i + 1].kind = "row"
                        /\ t.buffer.lines[i + 1].route =
                               PadRight(output.objects[i].route, t.routeWidth)

\* the table holds the empty label and another one, and was printed as JSON
C9_Witness ==
    /\ pc = "done"
    /\ rendered = "json"
    /\ <<>> \in DOMAIN table
    /\ Cardinality(DOMAIN table) >= 2
    /\ Len(stdout) = 1

\* C10: the width sortRoutes returns is the largest of 9, the length of
\* "[UNKNOWN]", and the lengths of the non-empty keys; so it is 9 for an empty
\* table and for a table of the empty label alone.
C10_RouteWidth ==
    rendered # "none" =>
        /\ Len(defaultRoute) = 9
        /\ routeWidth >= 9
        /\ \A k \in DOMAIN table : routeWidth >= Len(k)
        /\ \/ routeWidth = 9
           \/ \E k \in DOMAIN table : k # <<>> /\ routeWidth = Len(k)
        /\ DOMAIN table \subseteq {<<>>} => routeWidth = 9

\* a key longer than "[UNKNOWN]" beside the empty label
C10_Witness ==
    /\ rendered # "none"
    /\ <<>> \in DOMAIN table
    /\ \E k \in DOMAIN table : Len(k) > 9
    /\ routeWidth > 9

====
